---- MODULE Spec2Model ----
(***************************************************************************)
(* KeyQuest: the game session engine of src/src/App.jsx, together with the *)
(* parts of Keyboard.jsx and RiddleModal.jsx that deliver events to it.    *)
(*                                                                         *)
(* One action is one event handler or one timer callback, followed by the  *)
(* React render it causes and the effects of that render (the Timer        *)
(* effect of App.jsx and the reset effect of RiddleModal.jsx).  State      *)
(* updates written as setX(prev => ...) read the value left by the earlier *)
(* updates of the same batch; values read from a closure are the values of *)
(* the render that created the closure.  A callback handed to setTimeout   *)
(* keeps the closure of the render in which it was scheduled: the captured *)
(* values travel with the timer in the variable timers.                    *)
(***************************************************************************)
EXTENDS Integers, Sequences, FiniteSets, TLC

(***************************************************************************)
(* Bounds of the exploration: how many word advances may be pending at     *)
(* once, the last seconds of the countdown in which the player mistypes,   *)
(* how many keys other than the expected one the player types in all, how  *)
(* many games are started, how many score submissions may be awaiting      *)
(* their result at once, and the largest stored personal best with which   *)
(* a further game is started.  MaxWordLen is the length of the longest     *)
(* word handed to the word display when it is examined on its own, and     *)
(* MaxClockSteps the number of times the clock of the rate limiter moves.  *)
(***************************************************************************)
MaxPendingAdvance == 2
ErrWindow == 1
MaxMistakes == 3
MaxGames == 2
MaxPendingSave == 1
MaxBestAtRestart == 10
MaxWordLen == 3
MaxClockSteps == 2

(***************************************************************************)
(* GAME_STATES and GAME_CONFIG.                                            *)
(***************************************************************************)
MENU == "menu"
PLAYING == "playing"
RIDDLE == "riddle"
GAME_OVER == "game_over"
GAME_STATES == {MENU, PLAYING, RIDDLE, GAME_OVER}

BONUS_TIME == 10
MAX_TIME == 60
POINTS_PER_WORD == 5
POINTS_PER_RIDDLE == 20
\* The amount the RiddleModal result message announces for a correct answer.
ResultMessagePoints == 10
PENALTY_PER_WRONG_WORD == 3
POINTS_PENALTY_WRONG_KEY == 3
MAX_WRONG_KEYS_PER_WORD == 2
DefaultTime == 30
TimeOptions == {30, 45, 60}

(***************************************************************************)
(* Timer delays in milliseconds.                                           *)
(***************************************************************************)
TickDelay == 1000
AdvanceDelay == 500
AnswerDelay == 2000
ShowSaveDelay == 100

(***************************************************************************)
(* The riddle catalog (data/riddles.json, riddlesData.riddles): an array   *)
(* of sets { words, options, correctAnswer }.  A word is a sequence of     *)
(* one-letter strings; "a" and "A" differ, as they do under ===.           *)
(***************************************************************************)
riddles ==
    << [words |-> << <<"A", "a", "A">>, <<"a", "A">> >>,
        options |-> <<"x", "y">>, correctAnswer |-> 1],
       [words |-> << <<"a", "A">>, <<"A">> >>,
        options |-> <<"x", "y">>, correctAnswer |-> 0] >>

RiddleIndices == 0 .. (Len(riddles) - 1)

\* riddlesData.riddles[r].words[w], both indices counted from 0
Word(r, w) == riddles[r + 1].words[w + 1]

WordCount(r) == Len(riddles[r + 1].words)

CorrectAnswer(r) == riddles[r + 1].correctAnswer

OptionIndices(r) == 0 .. (Len(riddles[r + 1].options) - 1)

(***************************************************************************)
(* Key events: the letters (either case), the on-screen SPACE button and   *)
(* backspace.                                                              *)
(***************************************************************************)
Letters == {"a", "A"}
BACKSPACE == "BACKSPACE"
SPACE == " "
Keys == Letters \cup {BACKSPACE, SPACE}

VARIABLES
    gameState,            \* useState(GAME_STATES.MENU)
    score,                \* useState(0)
    timeLeft,             \* useState(30)
    selectedTime,         \* useState(30)
    currentRiddleIndex,   \* useState(0)
    currentWordIndex,     \* useState(0)
    typedText,            \* useState(''), a sequence of characters
    wrongKeyCount,        \* useState(0)
    usedRiddleIndices,    \* useState([]), an array
    currentRound,         \* useState(1)
    showRiddleModal,      \* useState(false)
    showGameOver,         \* useState(false)
    showSaveScore,        \* useState(false)
    showResult,           \* RiddleModal: useState(false)
    mistakes,             \* exploration budget: keys other than the target typed so far
    games,                \* exploration budget: games started
    timers,               \* pending setTimeout callbacks, in the order started
    savesInFlight,        \* saveScore calls that handleSaveScore is awaiting
    playerHighScore,      \* useState(0), mirrored in localStorage keyquest_best_score
    endGameScore,         \* score seen by the endGame held by handleRiddleAnswer
    endGameBest,          \* playerHighScore seen by that endGame
    wordDisplay,          \* WordDisplay examined on its own: its props and what it rendered
    rateLimit             \* checkRateLimit examined on its own: Date.now(), localStorage, calls granted

appVars == <<gameState, score, timeLeft, selectedTime, currentRiddleIndex,
             currentWordIndex, typedText, wrongKeyCount, usedRiddleIndices,
             currentRound, showRiddleModal, showGameOver, showSaveScore,
             showResult, timers, mistakes, games, savesInFlight,
             playerHighScore, endGameScore, endGameBest>>

vars == <<appVars, wordDisplay, rateLimit>>

Max(a, b) == IF a >= b THEN a ELSE b
Min(a, b) == IF a <= b THEN a ELSE b

(***************************************************************************)
(* currentWord = currentRiddle?.words[currentWordIndex]: undefined when    *)
(* the index is outside the words of the set.                              *)
(***************************************************************************)
HasCurrentWord == currentWordIndex \in 0 .. (WordCount(currentRiddleIndex) - 1)
currentWord == Word(currentRiddleIndex, currentWordIndex)

(***************************************************************************)
(* Pending timers.  A timer is a record: kind, and the values its callback *)
(* captured (idx, riddle: the currentWordIndex and currentRiddle seen by   *)
(* moveToNextWord; correct, used: the argument of onAnswer and the         *)
(* usedRiddleIndices seen by handleRiddleAnswer; score, best: the score    *)
(* and playerHighScore seen by the endGame that handleRiddleAnswer holds). *)
(***************************************************************************)
NoCapture ==
    [kind |-> "none", idx |-> 0, riddle |-> 0, correct |-> FALSE, used |-> <<>>,
     overtaken |-> FALSE, score |-> 0, best |-> 0]
TickTimer == [NoCapture EXCEPT !.kind = "tick"]
AdvanceTimer(i, r) == [NoCapture EXCEPT !.kind = "advance", !.idx = i, !.riddle = r]
AnswerTimer(c, u) ==
    [NoCapture EXCEPT !.kind = "answer", !.correct = c, !.used = u,
                      !.score = endGameScore, !.best = endGameBest]
ShowSaveTimer == [NoCapture EXCEPT !.kind = "showSave"]

Delay(kind) ==
    CASE kind = "tick" -> TickDelay
      [] kind = "advance" -> AdvanceDelay
      [] kind = "answer" -> AnswerDelay
      [] kind = "showSave" -> ShowSaveDelay

(***************************************************************************)
(* A timer runs after every timer that was started before it with a delay  *)
(* no longer than its own; a timer with a shorter delay may overtake.  The *)
(* countdown re-arms itself, so of the ticks started after an answer timer *)
(* only the first can run before it (TickDelay + TickDelay >= AnswerDelay):*)
(* that tick marks the answer timer as overtaken.                          *)
(***************************************************************************)
CanFire(i) ==
    /\ i \in 1 .. Len(timers)
    /\ \A j \in 1 .. (i - 1) :
          /\ Delay(timers[j].kind) > Delay(timers[i].kind)
          /\ ~timers[j].overtaken

Overtake(q, i) ==
    [j \in 1 .. Len(q) |-> IF j < i THEN [q[j] EXCEPT !.overtaken = TRUE] ELSE q[j]]

RemoveAt(q, i) == [j \in 1 .. (Len(q) - 1) |-> IF j < i THEN q[j] ELSE q[j + 1]]

IsNotTick(t) == t.kind # "tick"
IsAdvance(t) == t.kind = "advance"

\* Mutant: the cleanup leaves the pending tick in place.
ClearTick_Keep(q) == q

\* clearTimeout(timerRef.current)
ClearTick(q) == SelectSeq(q, IsNotTick)

PendingAdvances(q) == Len(SelectSeq(q, IsAdvance))


(***************************************************************************)
(* The state seen by a handler, as a record, so that the updates of one    *)
(* batch compose: every handler below maps such a record to the record     *)
(* after its setState calls.                                               *)
(***************************************************************************)
Cur ==
    [gameState |-> gameState, score |-> score, timeLeft |-> timeLeft,
     selectedTime |-> selectedTime, currentRiddleIndex |-> currentRiddleIndex,
     currentWordIndex |-> currentWordIndex, typedText |-> typedText,
     wrongKeyCount |-> wrongKeyCount, usedRiddleIndices |-> usedRiddleIndices,
     currentRound |-> currentRound, showRiddleModal |-> showRiddleModal,
     showGameOver |-> showGameOver, showSaveScore |-> showSaveScore,
     showResult |-> showResult, timers |-> timers, mistakes |-> mistakes,
     games |-> games, savesInFlight |-> savesInFlight,
     playerHighScore |-> playerHighScore, endGameScore |-> endGameScore,
     endGameBest |-> endGameBest]

\* endGame: setGameState(GAME_OVER), setShowGameOver(true), clearTimeout
EndGame(n) ==
    [n EXCEPT !.gameState = GAME_OVER,
              !.showGameOver = TRUE,
              !.timers = ClearTick(@)]

\* Mutant: the best is compared with and set to the score of the batch.
endGame_LiveScore(n, s, b) ==
    [EndGame(n) EXCEPT !.playerHighScore = IF n.score > @ THEN n.score ELSE @]

\* endGame as a closure over score = s and playerHighScore = b (its
\* useCallback dependencies): EndGame, then a new best is stored when s > b.
endGame(n, s, b) ==
    [EndGame(n) EXCEPT !.playerHighScore = IF s > b THEN s ELSE @]

(***************************************************************************)
(* The render after a batch, with its effects.  Timer effect, dependencies *)
(* [gameState, timeLeft]: when one changed, the cleanup clears the pending *)
(* tick, then a new tick is armed if PLAYING with time left, and endGame   *)
(* runs if PLAYING with no time left.  RiddleModal effect, dependencies    *)
(* [isOpen, riddle]: when one changed and the modal is open, the selection *)
(* is reset.                                                               *)
(***************************************************************************)
\* Mutant: the effect does not end the game when the time is up.
TimerEffect_NoEndGame(n) ==
    LET depsChanged == n.gameState # gameState \/ n.timeLeft # timeLeft
        cleaned == [n EXCEPT !.timers = ClearTick(@)]
    IN  IF ~depsChanged THEN n
        ELSE IF n.gameState = PLAYING /\ n.timeLeft > 0
             THEN [cleaned EXCEPT !.timers = Append(@, TickTimer)]
        ELSE cleaned

TimerEffect(n) ==
    LET depsChanged == n.gameState # gameState \/ n.timeLeft # timeLeft
        cleaned == [n EXCEPT !.timers = ClearTick(@)]
    IN  IF ~depsChanged THEN n
        ELSE IF n.gameState = PLAYING /\ n.timeLeft > 0
             THEN [cleaned EXCEPT !.timers = Append(@, TickTimer)]
        ELSE IF n.timeLeft = 0 /\ n.gameState = PLAYING
             THEN endGame(cleaned, cleaned.score, cleaned.playerHighScore)
        ELSE cleaned

RiddleModalEffect(n) ==
    LET depsChanged == \/ n.showRiddleModal # showRiddleModal
                       \/ n.currentRiddleIndex # currentRiddleIndex
    IN  IF depsChanged /\ n.showRiddleModal
        THEN [n EXCEPT !.showResult = FALSE]
        ELSE n

Commit(raw) ==
    LET n == RiddleModalEffect(TimerEffect(raw))
    IN  /\ gameState' = n.gameState
        /\ score' = n.score
        /\ timeLeft' = n.timeLeft
        /\ selectedTime' = n.selectedTime
        /\ currentRiddleIndex' = n.currentRiddleIndex
        /\ currentWordIndex' = n.currentWordIndex
        /\ typedText' = n.typedText
        /\ wrongKeyCount' = n.wrongKeyCount
        /\ usedRiddleIndices' = n.usedRiddleIndices
        /\ currentRound' = n.currentRound
        /\ showRiddleModal' = n.showRiddleModal
        /\ showGameOver' = n.showGameOver
        /\ showSaveScore' = n.showSaveScore
        /\ showResult' = n.showResult
        /\ timers' = n.timers
        /\ mistakes' = n.mistakes
        /\ games' = n.games
        /\ savesInFlight' = n.savesInFlight
        /\ playerHighScore' = n.playerHighScore
        /\ endGameScore' = n.endGameScore
        /\ endGameBest' = n.endGameBest
        /\ UNCHANGED <<wordDisplay, rateLimit>>

(***************************************************************************)
(* The keys under which the program calls checkRateLimit, with the limit   *)
(* and the window in milliseconds it passes: handleSaveScore calls         *)
(* checkRateLimit('save_score_ui', 3, 60000) and saveScore calls           *)
(* checkRateLimit('save_score', 5, 60000).                                 *)
(***************************************************************************)
RateKeys == {"save_score_ui", "save_score"}
RateLimitOf(key) == IF key = "save_score_ui" THEN 3 ELSE 5
RateWindow == 60000

\* No call of checkRateLimit yet: empty localStorage; granted[key] lists
\* the times at which a call for key returned true.
NoRequests ==
    [now |-> 0, steps |-> 0,
     storage |-> [key \in RateKeys |-> <<>>],
     granted |-> [key \in RateKeys |-> <<>>],
     last |-> [key |-> "", result |-> FALSE]]

\* WordDisplay before it is examined: no props, nothing rendered.
NotRendered ==
    [currentWord |-> <<>>, typedText |-> <<>>, isComplete |-> FALSE,
     rendered |-> FALSE, chars |-> <<>>]

\* The state of the mounted component: the useState initial values.
Mounted ==
    /\ gameState = MENU
    /\ score = 0
    /\ timeLeft = DefaultTime
    /\ selectedTime = DefaultTime
    /\ currentRiddleIndex = 0
    /\ currentWordIndex = 0
    /\ typedText = <<>>
    /\ wrongKeyCount = 0
    /\ usedRiddleIndices = <<>>
    /\ currentRound = 1
    /\ showRiddleModal = FALSE
    /\ showGameOver = FALSE
    /\ showSaveScore = FALSE
    /\ showResult = FALSE
    /\ timers = <<>>
    /\ mistakes = 0
    /\ savesInFlight = 0
    /\ playerHighScore = 0
    /\ endGameScore = 0
    /\ endGameBest = 0

Init ==
    /\ Mounted
    /\ games = 0
    /\ wordDisplay = NotRendered
    /\ rateLimit = NoRequests

\* The application as mounted, with the last of the explored games ahead.
InitLastGame ==
    /\ Mounted
    /\ games = MaxGames - 1
    /\ wordDisplay = NotRendered
    /\ rateLimit = NoRequests

(***************************************************************************)
(* Menu: the duration buttons and the Start button, rendered in MENU.      *)
(***************************************************************************)
SelectTime(t) ==
    /\ gameState = MENU
    /\ Commit([Cur EXCEPT !.selectedTime = t])

\* Mutant: the wrong-key count of the previous game is kept.
initializeGame_KeepWrongKeys(firstRiddleIndex) ==
    [Cur EXCEPT !.gameState = PLAYING,
                !.score = 0,
                !.timeLeft = selectedTime,
                !.currentRiddleIndex = firstRiddleIndex,
                !.usedRiddleIndices = <<firstRiddleIndex>>,
                !.currentWordIndex = 0,
                !.typedText = <<>>,
                !.currentRound = 1,
                !.showRiddleModal = FALSE,
                !.showGameOver = FALSE,
                !.showSaveScore = FALSE,
                !.endGameScore = 0,
                !.endGameBest = playerHighScore]

initializeGame(firstRiddleIndex) ==
    [Cur EXCEPT !.gameState = PLAYING,
                !.score = 0,
                !.timeLeft = selectedTime,
                !.currentRiddleIndex = firstRiddleIndex,
                !.usedRiddleIndices = <<firstRiddleIndex>>,
                !.currentWordIndex = 0,
                !.typedText = <<>>,
                !.wrongKeyCount = 0,
                !.currentRound = 1,
                !.showRiddleModal = FALSE,
                !.showGameOver = FALSE,
                !.showSaveScore = FALSE,
                !.endGameScore = 0,
                !.endGameBest = playerHighScore]

StartGame ==
    /\ gameState = MENU
    /\ games < MaxGames
    /\ playerHighScore <= MaxBestAtRestart
    /\ \E r \in RiddleIndices :
          Commit([initializeGame(r) EXCEPT !.games = @ + 1])

(***************************************************************************)
(* moveToNextWord(wordCompleted), called from a closure that saw           *)
(* currentWordIndex = idx and currentRiddle = riddles[r], on the batch     *)
(* state n.                                                                *)
(***************************************************************************)
\* Mutant: the advance to the next word keeps the buffer and the wrong-key
\* count of the word that was left.
moveToNextWord_KeepBuffer(wordCompleted, idx, r, n) ==
    LET s == IF wordCompleted
             THEN n.score + POINTS_PER_WORD
             ELSE Max(0, n.score - PENALTY_PER_WRONG_WORD)
    IN  IF idx + 1 < WordCount(r)
        THEN [n EXCEPT !.score = s,
                       !.currentWordIndex = @ + 1]
        ELSE [n EXCEPT !.score = s,
                       !.showRiddleModal = TRUE,
                       !.gameState = RIDDLE]

moveToNextWord(wordCompleted, idx, r, n) ==
    LET s == IF wordCompleted
             THEN n.score + POINTS_PER_WORD
             ELSE Max(0, n.score - PENALTY_PER_WRONG_WORD)
    IN  IF idx + 1 < WordCount(r)
        THEN [n EXCEPT !.score = s,
                       !.currentWordIndex = @ + 1,
                       !.typedText = <<>>,
                       !.wrongKeyCount = 0]
        ELSE [n EXCEPT !.score = s,
                       !.showRiddleModal = TRUE,
                       !.gameState = RIDDLE]

(***************************************************************************)
(* handleKeyPress(key).                                                    *)
(***************************************************************************)
\* Mutant: backspace removes the character but keeps the wrong-key count.
handleBackspace_KeepCount(n) ==
    IF Len(typedText) > 0
    THEN [n EXCEPT !.typedText = SubSeq(@, 1, Len(@) - 1)]
    ELSE n

handleBackspace(n) ==
    IF Len(typedText) > 0
    THEN [n EXCEPT !.typedText = SubSeq(@, 1, Len(@) - 1),
                   !.wrongKeyCount = IF wrongKeyCount > 0 THEN Max(0, @ - 1) ELSE @]
    ELSE n

\* Mutant: the completion test reads the length before the key was appended.
handleCorrectKey_StaleLength(key, n) ==
    LET newTypedText == Append(typedText, key)
        typed == [n EXCEPT !.typedText = newTypedText]
    IN  IF Len(typedText) = Len(currentWord)
        THEN moveToNextWord(TRUE, currentWordIndex, currentRiddleIndex, typed)
        ELSE typed

handleCorrectKey(key, n) ==
    LET newTypedText == Append(typedText, key)
        typed == [n EXCEPT !.typedText = newTypedText]
    IN  IF Len(newTypedText) = Len(currentWord)
        THEN moveToNextWord(TRUE, currentWordIndex, currentRiddleIndex, typed)
        ELSE typed

\* Mutant: reaching the wrong-key cap does not schedule the word advance.
handleWrongKey_NoAdvance(key, n) ==
    LET newTypedText == Append(typedText, key)
        newWrongCount == wrongKeyCount + 1
    IN  [n EXCEPT !.score = Max(0, @ - POINTS_PENALTY_WRONG_KEY),
                  !.typedText = newTypedText,
                  !.wrongKeyCount = newWrongCount]

\* Mutant: the wrong-key penalty is not clamped at 0.
handleWrongKey_NoClamp(key, n) ==
    LET newTypedText == Append(typedText, key)
        newWrongCount == wrongKeyCount + 1
        charged == [n EXCEPT !.score = @ - POINTS_PENALTY_WRONG_KEY,
                             !.typedText = newTypedText,
                             !.wrongKeyCount = newWrongCount]
    IN  IF newWrongCount >= MAX_WRONG_KEYS_PER_WORD
        THEN [charged EXCEPT !.timers = Append(@, AdvanceTimer(currentWordIndex,
                                                               currentRiddleIndex))]
        ELSE charged

handleWrongKey(key, n) ==
    LET newTypedText == Append(typedText, key)
        newWrongCount == wrongKeyCount + 1
        charged == [n EXCEPT !.score = Max(0, @ - POINTS_PENALTY_WRONG_KEY),
                             !.typedText = newTypedText,
                             !.wrongKeyCount = newWrongCount]
    IN  IF newWrongCount >= MAX_WRONG_KEYS_PER_WORD
        THEN [charged EXCEPT !.timers = Append(@, AdvanceTimer(currentWordIndex,
                                                               currentRiddleIndex))]
        ELSE charged

\* Mutant: a key pressed on a full buffer is handled as a wrong key.
handleKeyPress_NoTargetTest(key) ==
    IF gameState # PLAYING \/ ~HasCurrentWord THEN Cur
    ELSE IF key = BACKSPACE THEN handleBackspace(Cur)
    ELSE IF Len(typedText) >= Len(currentWord) THEN handleWrongKey(key, Cur)
    ELSE IF key = currentWord[Len(typedText) + 1] THEN handleCorrectKey(key, Cur)
    ELSE handleWrongKey(key, Cur)

handleKeyPress(key) ==
    IF gameState # PLAYING \/ ~HasCurrentWord THEN Cur
    ELSE IF key = BACKSPACE THEN handleBackspace(Cur)
    ELSE IF Len(typedText) >= Len(currentWord) THEN Cur
    ELSE IF key = currentWord[Len(typedText) + 1] THEN handleCorrectKey(key, Cur)
    ELSE handleWrongKey(key, Cur)

IsTargetKey(key) ==
    /\ HasCurrentWord
    /\ Len(typedText) < Len(currentWord)
    /\ key = currentWord[Len(typedText) + 1]

KeyPress(key) ==
    /\ gameState = PLAYING
    /\ PendingAdvances(handleKeyPress(key).timers) <= MaxPendingAdvance
    /\ \/ /\ IsTargetKey(key)
          /\ Commit(handleKeyPress(key))
       \/ /\ ~IsTargetKey(key)
          /\ timeLeft <= ErrWindow
          /\ mistakes < MaxMistakes
          /\ Commit([handleKeyPress(key) EXCEPT !.mistakes = @ + 1])

(***************************************************************************)
(* A letter or Backspace keydown while the session is not PLAYING.  The    *)
(* Keyboard component, which owns the keydown listener, is rendered only   *)
(* in PLAYING and is given disabled = (gameState !== PLAYING); a key that  *)
(* got through would meet the same test at the top of handleKeyPress.      *)
(* Explored, like the mistyped keys, in the last seconds of the countdown. *)
(***************************************************************************)
KeyboardEnabled == gameState = PLAYING

\* Mutant: the key is handled without any test of the state.
handleKeyDown_NoStateTest(key) ==
    IF key = BACKSPACE THEN handleBackspace(Cur)
    ELSE [Cur EXCEPT !.typedText = Append(@, key)]

handleKeyDown(key) ==
    IF ~KeyboardEnabled THEN Cur ELSE handleKeyPress(key)

KeyDownOutsidePlay(key) ==
    /\ gameState # PLAYING
    /\ timeLeft <= ErrWindow
    /\ Commit(handleKeyDown(key))

(***************************************************************************)
(* Timer callbacks.                                                        *)
(***************************************************************************)
Tick(i) ==
    /\ CanFire(i)
    /\ timers[i].kind = "tick"
    /\ Commit([Cur EXCEPT !.timeLeft = @ - 1,
                          !.timers = RemoveAt(Overtake(@, i), i)])

AdvanceTimeout(i) ==
    /\ CanFire(i)
    /\ timers[i].kind = "advance"
    /\ Commit(moveToNextWord(FALSE, timers[i].idx, timers[i].riddle,
                             [Cur EXCEPT !.timers = RemoveAt(@, i)]))

(***************************************************************************)
(* RiddleModal: handleAnswerSelect(answerIndex), by click or by the keys   *)
(* 1-4, while the modal is open; it returns at once while a result is      *)
(* shown.  onAnswer is the handleRiddleAnswer of the current render.       *)
(***************************************************************************)
\* Mutant: a selection is accepted while the result of an earlier one is
\* shown.
handleAnswerSelect_NoResultTest(answerIndex) ==
    [Cur EXCEPT !.showResult = TRUE,
                !.timers = Append(@, AnswerTimer(answerIndex = CorrectAnswer(currentRiddleIndex),
                                                 usedRiddleIndices))]

handleAnswerSelect(answerIndex) ==
    IF showResult THEN Cur
    ELSE [Cur EXCEPT !.showResult = TRUE,
                     !.timers = Append(@, AnswerTimer(answerIndex = CorrectAnswer(currentRiddleIndex),
                                                      usedRiddleIndices))]

AnswerSelect(answerIndex) ==
    /\ showRiddleModal
    /\ Commit(handleAnswerSelect(answerIndex))

(***************************************************************************)
(* handleRiddleAnswer(isCorrect) of a render that saw usedRiddleIndices =  *)
(* used; nextRiddleIndex is the random choice among availableIndices.      *)
(***************************************************************************)
SeqRange(q) == {q[j] : j \in 1 .. Len(q)}

availableIndices(used) == RiddleIndices \ SeqRange(used)

\* Mutant: the bonus time is added without the ceiling.
handleRiddleAnswer_NoCeiling(isCorrect, used, nextRiddleIndex, s, b, n) ==
    LET closed == [n EXCEPT !.showRiddleModal = FALSE]
        paid == [closed EXCEPT !.score = @ + POINTS_PER_RIDDLE]
    IN  IF isCorrect
        THEN IF Len(used) < Len(riddles) /\ availableIndices(used) # {}
             THEN [paid EXCEPT !.usedRiddleIndices = Append(@, nextRiddleIndex),
                               !.currentRiddleIndex = nextRiddleIndex,
                               !.currentWordIndex = 0,
                               !.typedText = <<>>,
                               !.wrongKeyCount = 0,
                               !.currentRound = @ + 1,
                               !.gameState = PLAYING,
                               !.endGameScore = paid.score,
                               !.endGameBest = paid.playerHighScore,
                               !.timeLeft = @ + BONUS_TIME]
             ELSE endGame(paid, s, b)
        ELSE endGame(closed, s, b)

\* Mutant: a wrong answer is charged the word penalty before the game ends.
handleRiddleAnswer_WrongCharged(isCorrect, used, nextRiddleIndex, s, b, n) ==
    LET closed == [n EXCEPT !.showRiddleModal = FALSE]
        paid == [closed EXCEPT !.score = @ + POINTS_PER_RIDDLE]
    IN  IF isCorrect
        THEN IF Len(used) < Len(riddles) /\ availableIndices(used) # {}
             THEN [paid EXCEPT !.usedRiddleIndices = Append(@, nextRiddleIndex),
                               !.currentRiddleIndex = nextRiddleIndex,
                               !.currentWordIndex = 0,
                               !.typedText = <<>>,
                               !.wrongKeyCount = 0,
                               !.currentRound = @ + 1,
                               !.gameState = PLAYING,
                               !.endGameScore = paid.score,
                               !.endGameBest = paid.playerHighScore,
                               !.timeLeft = Min(@ + BONUS_TIME, MAX_TIME)]
             ELSE endGame(paid, s, b)
        ELSE endGame([closed EXCEPT !.score = Max(0, @ - PENALTY_PER_WRONG_WORD)], s, b)

\* Mutant: the next riddle set becomes the active one without being recorded
\* as used.
handleRiddleAnswer_NotRecorded(isCorrect, used, nextRiddleIndex, s, b, n) ==
    LET closed == [n EXCEPT !.showRiddleModal = FALSE]
        paid == [closed EXCEPT !.score = @ + POINTS_PER_RIDDLE]
    IN  IF isCorrect
        THEN IF Len(used) < Len(riddles) /\ availableIndices(used) # {}
             THEN [paid EXCEPT !.currentRiddleIndex = nextRiddleIndex,
                               !.currentWordIndex = 0,
                               !.typedText = <<>>,
                               !.wrongKeyCount = 0,
                               !.currentRound = @ + 1,
                               !.gameState = PLAYING,
                               !.endGameScore = paid.score,
                               !.endGameBest = paid.playerHighScore,
                               !.timeLeft = Min(@ + BONUS_TIME, MAX_TIME)]
             ELSE endGame(paid, s, b)
        ELSE endGame(closed, s, b)

handleRiddleAnswer(isCorrect, used, nextRiddleIndex, s, b, n) ==
    LET closed == [n EXCEPT !.showRiddleModal = FALSE]
        paid == [closed EXCEPT !.score = @ + POINTS_PER_RIDDLE]
    IN  IF isCorrect
        THEN IF Len(used) < Len(riddles) /\ availableIndices(used) # {}
             THEN [paid EXCEPT !.usedRiddleIndices = Append(@, nextRiddleIndex),
                               !.currentRiddleIndex = nextRiddleIndex,
                               !.currentWordIndex = 0,
                               !.typedText = <<>>,
                               !.wrongKeyCount = 0,
                               !.currentRound = @ + 1,
                               !.gameState = PLAYING,
                               !.endGameScore = paid.score,
                               !.endGameBest = paid.playerHighScore,
                               !.timeLeft = Min(@ + BONUS_TIME, MAX_TIME)]
             ELSE endGame(paid, s, b)
        ELSE endGame(closed, s, b)

NextChoices(used) == IF availableIndices(used) = {} THEN {0} ELSE availableIndices(used)

AnswerTimeout(i) ==
    /\ CanFire(i)
    /\ timers[i].kind = "answer"
    /\ \E nextRiddleIndex \in NextChoices(timers[i].used) :
          Commit(handleRiddleAnswer(timers[i].correct, timers[i].used, nextRiddleIndex,
                                    timers[i].score, timers[i].best,
                                    [Cur EXCEPT !.timers = RemoveAt(@, i)]))

(***************************************************************************)
(* GameOverModal and SaveScoreModal buttons.                               *)
(***************************************************************************)
\* Play Again / Back to Menu
BackToMenu ==
    /\ showGameOver
    /\ Commit([Cur EXCEPT !.showGameOver = FALSE, !.gameState = MENU])

\* Save Score: the save modal opens after a short delay
SaveScoreClick ==
    /\ showGameOver
    /\ Commit([Cur EXCEPT !.showGameOver = FALSE,
                          !.timers = Append(@, ShowSaveTimer)])

ShowSaveTimeout(i) ==
    /\ CanFire(i)
    /\ timers[i].kind = "showSave"
    /\ Commit([Cur EXCEPT !.showSaveScore = TRUE, !.timers = RemoveAt(@, i)])

\* Skip
SkipSave ==
    /\ showSaveScore
    /\ Commit([Cur EXCEPT !.showSaveScore = FALSE,
                          !.showGameOver = FALSE,
                          !.gameState = MENU])

(***************************************************************************)
(* handleSaveScore(name), from the Save button or the Enter key of the     *)
(* save modal.  It returns early when the name is invalid or the rate      *)
(* limit is hit; otherwise it calls saveScore(name, score) and awaits the  *)
(* result.  The continuation runs when the call returns: on success the    *)
(* modals are closed and the session goes to MENU, on failure only an      *)
(* alert is shown.  Accepted submissions are explored in the last game,    *)
(* with the countdown in its last seconds.                                 *)
(***************************************************************************)
handleSaveScore(accepted) ==
    IF accepted
    THEN [Cur EXCEPT !.savesInFlight = @ + 1]
    ELSE Cur

SaveScoreSubmit(accepted) ==
    /\ showSaveScore
    /\ accepted => /\ savesInFlight < MaxPendingSave
                   /\ games = MaxGames
                   /\ timeLeft <= ErrWindow
    /\ Commit(handleSaveScore(accepted))

\* Mutant: a failed submission closes the modals like a successful one.
\* loadPlayerHighScore: the stored best (localStorage holds the same value as
\* playerHighScore, both are written together) is raised to the best score the
\* leaderboard returns for the name; getPlayerHighScore returns 0 on any error.
loadPlayerHighScore(supabaseBestScore) ==
    [Cur EXCEPT !.playerHighScore = Max(@, supabaseBestScore)]

SaveScoreReturn_FailureLeaves(success) ==
    /\ savesInFlight > 0
    /\ \E supabaseBestScore \in {0, score} :
          Commit([loadPlayerHighScore(supabaseBestScore)
                    EXCEPT !.savesInFlight = @ - 1,
                           !.showSaveScore = FALSE,
                           !.showGameOver = FALSE,
                           !.gameState = MENU])

SaveScoreReturn(success) ==
    /\ savesInFlight > 0
    /\ IF success
       THEN \E supabaseBestScore \in {0, score} :
              Commit([loadPlayerHighScore(supabaseBestScore)
                        EXCEPT !.savesInFlight = @ - 1,
                               !.showSaveScore = FALSE,
                               !.showGameOver = FALSE,
                               !.gameState = MENU])
       ELSE Commit([Cur EXCEPT !.savesInFlight = @ - 1])

TimerIndices == 1 .. Len(timers)

Next ==
    \/ \E t \in TimeOptions : SelectTime(t)
    \/ StartGame
    \/ \E key \in Keys : KeyPress(key)
    \/ \E key \in Letters \cup {BACKSPACE} : KeyDownOutsidePlay(key)
    \/ \E i \in TimerIndices : Tick(i)
    \/ \E i \in TimerIndices : AdvanceTimeout(i)
    \/ \E answerIndex \in OptionIndices(currentRiddleIndex) : AnswerSelect(answerIndex)
    \/ \E i \in TimerIndices : AnswerTimeout(i)
    \/ BackToMenu
    \/ SaveScoreClick
    \/ \E i \in TimerIndices : ShowSaveTimeout(i)
    \/ SkipSave
    \/ \E accepted \in BOOLEAN : SaveScoreSubmit(accepted)
    \/ \E success \in BOOLEAN : SaveScoreReturn(success)

Spec == Init /\ [][Next]_vars

(***************************************************************************)
(* A setTimeout callback that is due runs: the 500 ms word advance, and    *)
(* the 100 ms timeout of the Save Score button, which can be ahead of it   *)
(* in the order of the timers.  The runs under fairness follow one game.   *)
(***************************************************************************)
FairSpec ==
    /\ InitLastGame
    /\ [][Next]_vars
    /\ WF_vars(\E i \in TimerIndices : AdvanceTimeout(i))
    /\ WF_vars(\E i \in TimerIndices : ShowSaveTimeout(i))

TypeOK ==
    /\ gameState \in GAME_STATES
    /\ score \in Nat
    /\ timeLeft \in Int
    /\ selectedTime \in TimeOptions
    /\ currentRiddleIndex \in RiddleIndices
    /\ currentWordIndex \in Nat
    /\ wrongKeyCount \in Nat
    /\ currentRound \in Nat
    /\ mistakes \in 0 .. MaxMistakes
    /\ games \in 0 .. MaxGames
    /\ savesInFlight \in 0 .. MaxPendingSave
    /\ playerHighScore \in Nat
    /\ endGameScore \in Nat
    /\ endGameBest \in Nat
    /\ wordDisplay.rendered \in BOOLEAN
    /\ wordDisplay.isComplete \in BOOLEAN
    /\ Len(wordDisplay.typedText) <= MaxWordLen
    /\ rateLimit.now \in Nat
    /\ rateLimit.steps \in 0 .. MaxClockSteps

(***************************************************************************)
(* Every setTimeout callback that is due runs (the clock keeps ticking     *)
(* while PLAYING), and the player answers a riddle that is presented.      *)
(***************************************************************************)
LiveSpec ==
    /\ Spec
    /\ WF_vars(\E i \in TimerIndices : AdvanceTimeout(i))
    /\ WF_vars(\E i \in TimerIndices : ShowSaveTimeout(i))
    /\ WF_vars(\E i \in TimerIndices : Tick(i))
    /\ WF_vars(\E answerIndex \in OptionIndices(currentRiddleIndex) :
                   AnswerSelect(answerIndex))
    /\ WF_vars(\E i \in TimerIndices : AnswerTimeout(i))

(***************************************************************************)
(* WordDisplay on its own.  App renders it in PLAYING with the props       *)
(* currentWord, typedText and isComplete = (typedText === currentWord);    *)
(* renderWord maps every character of the word to a span whose class is    *)
(* one of: text-green-500 ("correct"), text-red-500 ("incorrect"), the     *)
(* underlined pulse of the current character ("cursor"), text-gray-400     *)
(* ("pending"), and text-gray-300 for the preview of the next word.        *)
(* Position i of a sequence is index i - 1 of the string.                  *)
(***************************************************************************)
Lower(c) == IF c = "A" THEN "a" ELSE c

\* Mutant: the typed character is compared without regard to case.
charClass_IgnoreCase(word, typed, isCurrentWord, i) ==
    IF ~isCurrentWord THEN "preview"
    ELSE IF i - 1 < Len(typed)
         THEN IF Lower(typed[i]) = Lower(word[i]) THEN "correct" ELSE "incorrect"
    ELSE IF i - 1 = Len(typed) /\ Len(typed) < Len(word) THEN "cursor"
    ELSE "pending"

charClass(word, typed, isCurrentWord, i) ==
    IF ~isCurrentWord THEN "preview"
    ELSE IF i - 1 < Len(typed)
         THEN IF typed[i] = word[i] THEN "correct" ELSE "incorrect"
    ELSE IF i - 1 = Len(typed) /\ Len(typed) < Len(word) THEN "cursor"
    ELSE "pending"

\* if (!word) return null; otherwise one span per character of the word.
renderWord(word, typed, isCurrentWord) ==
    IF word = <<>> THEN <<>>
    ELSE [i \in 1 .. Len(word) |-> charClass(word, typed, isCurrentWord, i)]

\* Mutant: the flag compares the lengths only.
isComplete_ByLength(typed, word) == Len(typed) = Len(word)

\* isComplete={typedText === currentWord}
isComplete(typed, word) == typed = word

SeqsUpTo(S, n) == UNION {[1 .. k -> S] : k \in 0 .. n}

\* The words and buffers handed to WordDisplay: a word of one to MaxWordLen
\* letters and a buffer of typed characters no longer than the word.
DisplayWords == SeqsUpTo(Letters, MaxWordLen) \ {<<>>}
DisplayBuffers(word) == SeqsUpTo(Letters \cup {SPACE}, Len(word))

RenderInit ==
    /\ Mounted
    /\ games = 0
    /\ rateLimit = NoRequests
    /\ \E word \in DisplayWords : \E typed \in DisplayBuffers(word) :
          wordDisplay = [NotRendered EXCEPT !.currentWord = word,
                                            !.typedText = typed]

RenderWordDisplay ==
    /\ ~wordDisplay.rendered
    /\ wordDisplay' =
          [wordDisplay EXCEPT
              !.isComplete = isComplete(wordDisplay.typedText, wordDisplay.currentWord),
              !.rendered = TRUE,
              !.chars = renderWord(wordDisplay.currentWord, wordDisplay.typedText, TRUE)]
    /\ UNCHANGED <<appVars, rateLimit>>

RenderNext == RenderWordDisplay

RenderSpec == RenderInit /\ [][RenderNext]_vars

(***************************************************************************)
(* checkRateLimit on its own (utils/security.js).  The timestamps of a key *)
(* are kept in localStorage under rate_limit_<key> as a JSON array of      *)
(* integers, which JSON.parse gives back as written.  Date.now() does not  *)
(* go back; it moves by a millisecond, by the window less a millisecond,   *)
(* or by the window.                                                       *)
(***************************************************************************)
ClockSteps == {1, RateWindow - 1, RateWindow}

validRequests(requests, now, window) ==
    SelectSeq(requests, LAMBDA timestamp : now - timestamp < window)

\* Mutant: the limit is tested with > in place of >=.
checkRateLimit_OffByOne(key, limit, window) ==
    LET valid == validRequests(rateLimit.storage[key], rateLimit.now, window)
    IN  IF Len(valid) > limit
        THEN [result |-> FALSE, storage |-> rateLimit.storage]
        ELSE [result |-> TRUE,
              storage |-> [rateLimit.storage EXCEPT
                              ![key] = Append(valid, rateLimit.now)]]

\* The value returned and localStorage after the call.
checkRateLimit(key, limit, window) ==
    LET valid == validRequests(rateLimit.storage[key], rateLimit.now, window)
    IN  IF Len(valid) >= limit
        THEN [result |-> FALSE, storage |-> rateLimit.storage]
        ELSE [result |-> TRUE,
              storage |-> [rateLimit.storage EXCEPT
                              ![key] = Append(valid, rateLimit.now)]]

CheckRateLimit(key) ==
    LET call == checkRateLimit(key, RateLimitOf(key), RateWindow)
    IN  /\ rateLimit' =
              [rateLimit EXCEPT
                  !.storage = call.storage,
                  !.granted[key] = IF call.result THEN Append(@, rateLimit.now) ELSE @,
                  !.last = [key |-> key, result |-> call.result]]
        /\ UNCHANGED <<appVars, wordDisplay>>

AdvanceClock(d) ==
    /\ rateLimit.steps < MaxClockSteps
    /\ rateLimit' = [rateLimit EXCEPT !.now = @ + d, !.steps = @ + 1]
    /\ UNCHANGED <<appVars, wordDisplay>>

RateNext ==
    \/ \E key \in RateKeys : CheckRateLimit(key)
    \/ \E d \in ClockSteps : AdvanceClock(d)

RateSpec == Init /\ [][RateNext]_vars

(***************************************************************************)
(*                              Properties                                 *)
(***************************************************************************)
sessionFields == <<score, timeLeft, currentWordIndex, typedText, wrongKeyCount>>

\* C1: once GAME_OVER is entered, no step changes score, timeLeft,
\* currentWordIndex, typedText or wrongKeyCount until the session is back in
\* MENU and a new game is started.
C1_FrozenAfterGameOver ==
    [][(gameState \in {GAME_OVER, MENU} /\ ~StartGame) => UNCHANGED sessionFields]_vars

\* C2: from GAME_OVER the session moves only to MENU, never directly to
\* RIDDLE or PLAYING.
C2_GameOverOnlyToMenu ==
    [][gameState = GAME_OVER => gameState' \in {GAME_OVER, MENU}]_vars

\* C3: while PLAYING, currentWordIndex is a valid index into the words of
\* the active riddle set.
C3_WordIndexValid ==
    gameState = PLAYING => HasCurrentWord

\* C4: while a word advance scheduled by the wrong-key cap is pending, no
\* keystroke and no clock tick changes score, typedText, wrongKeyCount,
\* timeLeft or gameState.
C4_NoInputDuringDelay ==
    [][(/\ PendingAdvances(timers) > 0
        /\ \/ \E key \in Keys : KeyPress(key)
           \/ \E i \in TimerIndices : Tick(i))
       => UNCHANGED <<score, typedText, wrongKeyCount, timeLeft, gameState>>]_vars

\* C5: the score is never negative.
C5_ScoreNonNegative ==
    score >= 0

\* A wrong key was charged while the score was already 0.
C5_Witness ==
    /\ gameState = PLAYING
    /\ score = 0
    /\ wrongKeyCount = 1
    /\ mistakes = 1

\* C6: a word that reaches the wrong-key cap causes exactly one word advance,
\* and that advance moves past the abandoned word: when a scheduled advance
\* runs, it is the only one pending and the word it was scheduled for is
\* still the current word.
C6_OneAdvancePerWord ==
    [][\A i \in TimerIndices :
          AdvanceTimeout(i) =>
             /\ currentWordIndex = timers[i].idx
             /\ currentRiddleIndex = timers[i].riddle
             /\ PendingAdvances(timers) = 1]_vars

\* The text typed so far is a prefix of the current word.
TypedIsPrefix ==
    /\ HasCurrentWord
    /\ Len(typedText) <= Len(currentWord)
    /\ typedText = SubSeq(currentWord, 1, Len(typedText))

\* C7: with a correctly typed prefix in the buffer, the expected character
\* is appended; the character that completes the word adds exactly
\* POINTS_PER_WORD and advances to the next word of the same set (PLAYING,
\* empty buffer) or, after the last word, to RIDDLE.
C7_TypeWordCorrectly ==
    [][\A key \in Letters :
          (KeyPress(key) /\ TypedIsPrefix /\ IsTargetKey(key)) =>
             IF Len(typedText) + 1 = Len(currentWord)
             THEN /\ score' = score + POINTS_PER_WORD
                  /\ currentRiddleIndex' = currentRiddleIndex
                  /\ IF currentWordIndex + 1 < WordCount(currentRiddleIndex)
                     THEN /\ gameState' = PLAYING
                          /\ currentWordIndex' = currentWordIndex + 1
                          /\ typedText' = <<>>
                          /\ wrongKeyCount' = 0
                     ELSE /\ gameState' = RIDDLE
                          /\ showRiddleModal'
             ELSE /\ typedText' = Append(typedText, key)
                  /\ UNCHANGED <<score, gameState, currentWordIndex,
                                 currentRiddleIndex, wrongKeyCount>>]_vars

\* Both words of the first set were typed without a mistake.
C7_Witness ==
    /\ gameState = RIDDLE
    /\ currentRound = 1
    /\ score = 2 * POINTS_PER_WORD
    /\ mistakes = 0
    /\ typedText = currentWord

\* The last character typed is not the character of the word at its place.
LastTypedIsWrong ==
    /\ HasCurrentWord
    /\ Len(typedText) \in 1 .. Len(currentWord)
    /\ typedText[Len(typedText)] # currentWord[Len(typedText)]

\* C8: after a wrong keystroke that brought wrongKeyCount from 0 to 1, a
\* second wrong keystroke (not backspace, not the expected character) is
\* charged max(0, score - 3) and abandons the word; the advance it schedules
\* charges max(0, score - 3) once more and moves past that word.
C8_TwoWrongKeysAbandon ==
    [][/\ \A key \in Keys \ {BACKSPACE} :
             (/\ KeyPress(key)
              /\ wrongKeyCount = 1
              /\ LastTypedIsWrong
              /\ ~IsTargetKey(key))
             => /\ score' = Max(0, score - POINTS_PENALTY_WRONG_KEY)
                /\ wrongKeyCount' = MAX_WRONG_KEYS_PER_WORD
                /\ PendingAdvances(timers') = PendingAdvances(timers) + 1
       /\ \A i \in TimerIndices :
             AdvanceTimeout(i)
             => /\ score' = Max(0, score - PENALTY_PER_WRONG_WORD)
                /\ \/ gameState' = RIDDLE
                   \/ currentWordIndex' = timers[i].idx + 1]_vars

\* C9: a correct answer applied in RIDDLE while a riddle set is still unused
\* adds POINTS_PER_RIDDLE, adds the bonus time up to MAX_TIME, increments
\* the round, makes an unused set the active one and records it, and returns
\* to PLAYING at word 0 with an empty buffer and no wrong keys.
C9_CorrectAnswerNextRound ==
    [][\A i \in TimerIndices :
          (/\ AnswerTimeout(i)
           /\ timers[i].correct
           /\ gameState = RIDDLE
           /\ availableIndices(usedRiddleIndices) # {})
          => /\ score' = score + POINTS_PER_RIDDLE
             /\ timeLeft' = Min(MAX_TIME, timeLeft + BONUS_TIME)
             /\ currentRound' = currentRound + 1
             /\ currentRiddleIndex' \notin SeqRange(usedRiddleIndices)
             /\ SeqRange(usedRiddleIndices') =
                   SeqRange(usedRiddleIndices) \cup {currentRiddleIndex'}
             /\ currentWordIndex' = 0
             /\ typedText' = <<>>
             /\ wrongKeyCount' = 0
             /\ gameState' = PLAYING]_vars

\* C10: a correct answer applied in RIDDLE when every riddle set is used
\* ends the game, and the score still receives POINTS_PER_RIDDLE.
C10_CorrectAnswerExhausted ==
    [][\A i \in TimerIndices :
          (/\ AnswerTimeout(i)
           /\ timers[i].correct
           /\ gameState = RIDDLE
           /\ availableIndices(usedRiddleIndices) = {})
          => /\ gameState' = GAME_OVER
             /\ score' = score + POINTS_PER_RIDDLE]_vars

C12_UsedWithoutRepeat ==
    /\ Cardinality(SeqRange(usedRiddleIndices)) = Len(usedRiddleIndices)
    /\ Len(usedRiddleIndices) <= Len(riddles)

\* C13: timeLeft stays within 0 .. MAX_TIME, and it changes only by -1 on a
\* tick, by the bonus cut at MAX_TIME on a correct riddle answer, or by
\* being set to the selected duration when a game starts.
C13_TimeWithinRange ==
    /\ [](timeLeft \in 0 .. MAX_TIME)
    /\ [][timeLeft' # timeLeft =>
             \/ /\ \E i \in TimerIndices : Tick(i)
                /\ timeLeft' = timeLeft - 1
             \/ /\ \E i \in TimerIndices : AnswerTimeout(i) /\ timers[i].correct
                /\ timeLeft' = Min(timeLeft + BONUS_TIME, MAX_TIME)
             \/ /\ StartGame
                /\ timeLeft' = selectedTime]_vars

\* A riddle answered correctly with more than 50 seconds left: the bonus
\* was cut at the ceiling.
C13_Witness ==
    /\ gameState = PLAYING
    /\ currentRound = 2
    /\ selectedTime = MAX_TIME
    /\ timeLeft = MAX_TIME
    /\ score = 2 * POINTS_PER_WORD + POINTS_PER_RIDDLE

\* C14: a tick in PLAYING with timeLeft = t > 0 sets timeLeft to t - 1; when
\* t - 1 > 0 nothing else changes, and when t - 1 = 0 the game is over in
\* the same step, so that no state is PLAYING with timeLeft = 0.
C14_TickDecrements ==
    /\ [](~(gameState = PLAYING /\ timeLeft = 0))
    /\ [][\A i \in TimerIndices :
             (Tick(i) /\ gameState = PLAYING /\ timeLeft > 0) =>
                /\ timeLeft' = timeLeft - 1
                /\ gameState' = IF timeLeft = 1 THEN GAME_OVER ELSE PLAYING
                /\ UNCHANGED <<score, currentRiddleIndex, currentWordIndex, typedText,
                               wrongKeyCount, usedRiddleIndices, currentRound,
                               selectedTime, showRiddleModal, showSaveScore>>
                /\ showGameOver' = IF timeLeft = 1 THEN TRUE ELSE showGameOver]_vars

\* The countdown of a game ran out while a word was being typed.
C14_Witness ==
    /\ gameState = GAME_OVER
    /\ timeLeft = 0
    /\ showGameOver
    /\ currentRound = 1
    /\ Len(typedText) = 1
    /\ PendingAdvances(timers) = 0

IsTick(t) == t.kind = "tick"
PendingTicks(q) == Len(SelectSeq(q, IsTick))

\* C15: a tick is pending exactly when the session is PLAYING with time
\* left (one tick, never more); no tick is applied in MENU, RIDDLE or
\* GAME_OVER, and timeLeft does not decrease in a step taken from these
\* states other than the start of a game, which sets the chosen duration.
C15_CountdownOnlyWhilePlaying ==
    /\ [](PendingTicks(timers) = IF gameState = PLAYING /\ timeLeft > 0 THEN 1 ELSE 0)
    /\ [][gameState # PLAYING =>
             /\ ~(\E i \in TimerIndices : Tick(i))
             /\ StartGame \/ timeLeft' >= timeLeft]_vars

\* Back in PLAYING after a riddle, during which the time stood still: the
\* countdown is armed again.
C15_Witness ==
    /\ gameState = PLAYING
    /\ currentRound = 2
    /\ selectedTime = DefaultTime
    /\ timeLeft = DefaultTime + BONUS_TIME - 1
    /\ PendingTicks(timers) = 1

\* C16: starting a game from MENU with the selected duration d gives PLAYING
\* with score 0, timeLeft d, round 1, a catalog set as the active one and as
\* the only used one, word index 0, an empty buffer and no wrong keys,
\* whatever the previous game left behind.
C16_StartInitializes ==
    [][(StartGame /\ gameState = MENU) =>
          /\ gameState' = PLAYING
          /\ score' = 0
          /\ selectedTime \in TimeOptions
          /\ timeLeft' = selectedTime
          /\ currentRound' = 1
          /\ currentRiddleIndex' \in RiddleIndices
          /\ usedRiddleIndices' = <<currentRiddleIndex'>>
          /\ currentWordIndex' = 0
          /\ typedText' = <<>>
          /\ wrongKeyCount' = 0]_vars

\* A second game of 45 seconds was started after a game that had been lost.
C16_Witness ==
    /\ games = 2
    /\ gameState = PLAYING
    /\ selectedTime = 45
    /\ timeLeft = 45
    /\ score = 0
    /\ currentRound = 1
    /\ typedText = <<>>
    /\ mistakes = 0

\* C17: a backspace in PLAYING removes the last character of a non-empty
\* buffer and, when wrongKeyCount > 0, decrements it by 1; with an empty
\* buffer it changes nothing; score, currentWordIndex, timeLeft and
\* gameState are unchanged in both cases.
C17_Backspace ==
    [][(KeyPress(BACKSPACE) /\ gameState = PLAYING) =>
          /\ IF Len(typedText) > 0
             THEN /\ typedText' = SubSeq(typedText, 1, Len(typedText) - 1)
                  /\ wrongKeyCount' = IF wrongKeyCount > 0
                                      THEN wrongKeyCount - 1
                                      ELSE 0
             ELSE UNCHANGED <<typedText, wrongKeyCount>>
          /\ UNCHANGED <<score, currentWordIndex, timeLeft, gameState>>]_vars

\* After a completed word a wrong key was typed and then removed: the
\* buffer is empty, the count is back at 0, the penalty stays charged.
C17_Witness ==
    /\ gameState = PLAYING
    /\ currentWordIndex = 1
    /\ typedText = <<>>
    /\ wrongKeyCount = 0
    /\ mistakes = 2
    /\ PendingAdvances(timers) = 0
    /\ score = POINTS_PER_WORD - POINTS_PENALTY_WRONG_KEY

\* C18: a key event carrying the space character while PLAYING is ignored:
\* score, typedText, wrongKeyCount, currentWordIndex and gameState are
\* unchanged.
C18_SpaceIgnored ==
    [][(KeyPress(SPACE) /\ gameState = PLAYING) =>
          UNCHANGED <<score, typedText, wrongKeyCount, currentWordIndex, gameState>>]_vars

\* C19: a letter or backspace key event while the session is in MENU,
\* RIDDLE or GAME_OVER changes none of score, typedText, wrongKeyCount,
\* currentWordIndex, timeLeft and gameState.
C19_KeysOutsidePlayIgnored ==
    [][\A key \in Letters \cup {BACKSPACE} :
          (KeyDownOutsidePlay(key) /\ gameState # PLAYING) =>
             UNCHANGED <<score, typedText, wrongKeyCount, currentWordIndex,
                         timeLeft, gameState>>]_vars

\* The time ran out with a wrong character in the buffer: a state in which
\* a backspace or a letter would have an effect if it were processed.
C19_Witness ==
    /\ gameState = GAME_OVER
    /\ timeLeft = 0
    /\ Len(typedText) = 1
    /\ wrongKeyCount = 1
    /\ showGameOver
    /\ ENABLED KeyDownOutsidePlay(BACKSPACE)

\* C20: the keystroke that brings wrongKeyCount to the cap while PLAYING
\* schedules the word advance; a scheduled advance eventually runs; and
\* when it runs, currentWordIndex is incremented or, on the last word, the
\* state becomes RIDDLE.
C20_AdvanceEventuallyOccurs ==
    /\ [][(/\ gameState = PLAYING
           /\ wrongKeyCount < MAX_WRONG_KEYS_PER_WORD
           /\ wrongKeyCount' >= MAX_WRONG_KEYS_PER_WORD)
          => PendingAdvances(timers') = PendingAdvances(timers) + 1]_vars
    /\ \A k \in 1 .. (MaxPendingAdvance + 1) :
          (PendingAdvances(timers) = k) ~> (PendingAdvances(timers) < k)
    /\ [][\A i \in TimerIndices :
             AdvanceTimeout(i) =>
                \/ currentWordIndex' = currentWordIndex + 1
                \/ gameState' = RIDDLE]_vars

\* The first word was abandoned after two wrong keys and the advance has
\* run: the second word is current, with an empty buffer.
C20_Witness ==
    /\ gameState = PLAYING
    /\ currentWordIndex = 1
    /\ typedText = <<>>
    /\ wrongKeyCount = 0
    /\ mistakes = 2
    /\ score = 0
    /\ PendingAdvances(timers) = 0
    /\ games >= 1

\* The state startGame leaves: a fresh session on its first word.
SessionStarted ==
    /\ gameState = PLAYING
    /\ score = 0
    /\ timeLeft = selectedTime
    /\ currentRound = 1
    /\ currentWordIndex = 0
    /\ typedText = <<>>
    /\ wrongKeyCount = 0
    /\ usedRiddleIndices = <<currentRiddleIndex>>
    /\ ~showGameOver
    /\ ~showSaveScore

\* C21: every started session eventually reaches GAME_OVER, when the clock
\* keeps ticking while PLAYING and every presented riddle is eventually
\* answered.
C21_SessionReachesGameOver ==
    SessionStarted ~> (gameState = GAME_OVER)

\* C23: each correct riddle answer increases the score by exactly the 10
\* points that the result message of the riddle modal announces.
C23_CorrectAnswerAddsTen ==
    [][\A i \in TimerIndices :
          (AnswerTimeout(i) /\ timers[i].correct)
          => score' = score + ResultMessagePoints]_vars

\* A word advance: the key that completes the word, or the delayed
\* moveToNextWord(false) of an abandoned word.
CompletesWord(key) ==
    /\ IsTargetKey(key)
    /\ Len(typedText) + 1 = Len(currentWord)
    /\ KeyPress(key)

WordAdvance ==
    \/ \E key \in Letters : CompletesWord(key)
    \/ \E i \in TimerIndices : AdvanceTimeout(i)

\* C24: a word advance in PLAYING, after completion or abandonment, moves to
\* the next word with an empty buffer and no wrong keys and stays PLAYING
\* when the current word is not the last of the set; otherwise it enters
\* RIDDLE with the active riddle set unchanged (never GAME_OVER).
C24_WordAdvance ==
    [][(gameState = PLAYING /\ WordAdvance)
       => IF currentWordIndex + 1 < WordCount(currentRiddleIndex)
          THEN /\ currentWordIndex' = currentWordIndex + 1
               /\ typedText' = <<>>
               /\ wrongKeyCount' = 0
               /\ gameState' = PLAYING
          ELSE /\ gameState' = RIDDLE
               /\ currentRiddleIndex' = currentRiddleIndex]_vars

\* A key other than Backspace that differs from the target character.
Mismatches(key) ==
    /\ key # BACKSPACE
    /\ HasCurrentWord
    /\ Len(typedText) < Len(currentWord)
    /\ key # currentWord[Len(typedText) + 1]

\* C25: a keystroke in PLAYING that differs from the target character (the
\* right letter in the wrong case included) is appended to the buffer,
\* charges the wrong-key penalty clamped at 0 and increments wrongKeyCount;
\* while the count stays below the cap, the word index and the state do not
\* change.
C25_WrongKey ==
    [][\A key \in Keys :
          (Mismatches(key) /\ KeyPress(key))
          => /\ typedText' = Append(typedText, key)
             /\ score' = Max(0, score - POINTS_PENALTY_WRONG_KEY)
             /\ wrongKeyCount' = wrongKeyCount + 1
             /\ (wrongKeyCount' < MAX_WRONG_KEYS_PER_WORD
                 => /\ currentWordIndex' = currentWordIndex
                    /\ gameState' = gameState)]_vars

\* The second word of set 0 ("aA") was started with "A", the right letter in
\* the wrong case, after the first word had been completed.
C25_Witness ==
    /\ gameState = PLAYING
    /\ currentRiddleIndex = 0
    /\ currentWordIndex = 1
    /\ typedText = <<"A">>
    /\ wrongKeyCount = 1
    /\ score = POINTS_PER_WORD - POINTS_PENALTY_WRONG_KEY
    /\ mistakes = 1

\* C26: a letter keystroke in PLAYING when the buffer is as long as the
\* current word (no target character) changes neither score, buffer,
\* wrongKeyCount, word index nor state.
C26_FullBufferNoOp ==
    [][\A key \in Letters :
          (/\ HasCurrentWord
           /\ Len(typedText) >= Len(currentWord)
           /\ KeyPress(key))
          => UNCHANGED <<score, typedText, wrongKeyCount, currentWordIndex,
                         gameState>>]_vars

\* The one-letter word "A" of set 1 holds the wrong key "a", and a further
\* key was pressed on the full buffer.
C26_Witness ==
    /\ gameState = PLAYING
    /\ currentRiddleIndex = 1
    /\ currentWordIndex = 1
    /\ typedText = <<"a">>
    /\ wrongKeyCount = 1
    /\ score = POINTS_PER_WORD - POINTS_PENALTY_WRONG_KEY
    /\ mistakes = 2

\* C27: POINTS_PER_WORD is awarded for a word only when the buffer equals
\* that word character for character: the key that fills the buffer is the
\* last of a buffer without any mismatch.
C27_AwardOnlyForExactWord ==
    [][\A key \in Letters :
          (KeyPress(key) /\ score' = score + POINTS_PER_WORD)
          => Append(typedText, key) = currentWord]_vars

\* C28: wrongKeyCount never exceeds MAX_WRONG_KEYS_PER_WORD.
C28_WrongKeyCountAtMostCap ==
    wrongKeyCount <= MAX_WRONG_KEYS_PER_WORD

\* The positions of the buffer that differ from the current word.
MismatchedPositions ==
    {i \in 1 .. Len(typedText) :
        i > Len(currentWord) \/ typedText[i] # currentWord[i]}

\* C29: while PLAYING, wrongKeyCount is the number of positions of the
\* buffer whose character differs from the current word's character.
C29_CountIsMismatches ==
    (gameState = PLAYING /\ HasCurrentWord)
    => wrongKeyCount = Cardinality(MismatchedPositions)

\* C30: while PLAYING, the buffer is never longer than the current word (and
\* is empty when the word index has run past the set).
C30_BufferWithinWord ==
    gameState = PLAYING
    => IF HasCurrentWord
       THEN Len(typedText) <= Len(currentWord)
       ELSE typedText = <<>>

\* The second word of set 0 ("aA") is filled by "aa", with a wrong key in the
\* last slot, and one more key was pressed on the full buffer.
C30_Witness ==
    /\ gameState = PLAYING
    /\ currentRiddleIndex = 0
    /\ currentWordIndex = 1
    /\ typedText = <<"a", "a">>
    /\ wrongKeyCount = 1
    /\ mistakes = 2

\* C22: saveScore is called only while the state is GAME_OVER, and only by
\* the save action of the user: no other step puts a call in flight, and
\* none is made on entering GAME_OVER.
C22_SaveOnlyInGameOver ==
    [][savesInFlight' > savesInFlight
       => /\ gameState = GAME_OVER
          /\ SaveScoreSubmit(TRUE)]_vars

\* A step that begins a new word: the word index changes, another riddle set
\* becomes the active one, or a session is started.
NewWordBegins ==
    \/ currentWordIndex' # currentWordIndex
    \/ currentRiddleIndex' # currentRiddleIndex
    \/ usedRiddleIndices' # usedRiddleIndices
    \/ StartGame

\* C31: whenever a new word begins (the word index changes, or a new riddle
\* set or session is entered), the buffer is empty and wrongKeyCount is 0 in
\* the resulting state.
C31_NewWordStartsClean ==
    [][NewWordBegins => (typedText' = <<>> /\ wrongKeyCount' = 0)]_vars

\* The first word of set 0 was abandoned after two wrong keys and its delayed
\* advance has run: the second word is shown with an empty buffer.
C31_Witness ==
    /\ gameState = PLAYING
    /\ currentRiddleIndex = 0
    /\ currentWordIndex = 1
    /\ typedText = <<>>
    /\ wrongKeyCount = 0
    /\ mistakes = 2
    /\ score = 0
    /\ PendingAdvances(timers) = 0
    /\ games = 1

\* C32: within a session usedRiddleIndices only grows, and is replaced by a
\* fresh single-element array only when a game is started from MENU; in
\* every state of a started session currentRound is at least 1 and equals
\* the number of ids in usedRiddleIndices.
C32_UsedGrowsRoundCounts ==
    /\ [][IF StartGame
          THEN gameState = MENU /\ Len(usedRiddleIndices') = 1
          ELSE SeqRange(usedRiddleIndices) \subseteq SeqRange(usedRiddleIndices')]_vars
    /\ [](games >= 1
          => /\ currentRound >= 1
             /\ currentRound = Cardinality(SeqRange(usedRiddleIndices)))

\* C33: while PLAYING or in RIDDLE, the active riddle set is one of the
\* used riddle sets.
C33_ActiveSetIsUsed ==
    gameState \in {PLAYING, RIDDLE}
    => currentRiddleIndex \in SeqRange(usedRiddleIndices)

\* The second round is being played: the set drawn after the correct answer
\* is the active one and is recorded after the first.
C33_Witness ==
    /\ gameState = PLAYING
    /\ currentRound = 2
    /\ Len(usedRiddleIndices) = 2
    /\ usedRiddleIndices[2] = currentRiddleIndex
    /\ usedRiddleIndices[1] # currentRiddleIndex
    /\ games = 1

IsAnswer(t) == t.kind = "answer"

\* The selected answers that await the end of their result delay.
PendingAnswers(q) == Len(SelectSeq(q, IsAnswer))

\* A riddle is presented: the modal opens, or its riddle changes while open.
RiddlePresented ==
    /\ showRiddleModal'
    /\ (~showRiddleModal \/ currentRiddleIndex' # currentRiddleIndex)

\* C34: for each presentation of a riddle at most one answer is delivered:
\* a selection (click or keys 1-4) made while a result is shown is ignored,
\* the result stays shown until the next riddle is presented, a selection
\* schedules one answer, and the answer is applied once after the delay.
C34_OneAnswerPerPresentation ==
    [][/\ \A answerIndex \in OptionIndices(currentRiddleIndex) :
             AnswerSelect(answerIndex)
             => IF showResult
                THEN UNCHANGED vars
                ELSE /\ showResult'
                     /\ PendingAnswers(timers') = PendingAnswers(timers) + 1
       /\ (showResult /\ ~showResult') => RiddlePresented
       /\ \A i \in TimerIndices :
             AnswerTimeout(i)
             => PendingAnswers(timers') = PendingAnswers(timers) - 1]_vars

\* An option of the riddle was selected in RIDDLE: its result is shown and
\* the answer awaits the end of the delay.
C34_Witness ==
    /\ gameState = RIDDLE
    /\ showRiddleModal
    /\ showResult
    /\ PendingAnswers(timers) = 1
    /\ games = 1
    /\ ~showGameOver

\* A submission that fails: handleSaveScore rejects it (invalid name, rate
\* limit), or saveScore returns a failure (invalid score, service
\* unavailable, database or network error).
SubmissionFails ==
    \/ SaveScoreSubmit(FALSE)
    \/ SaveScoreReturn(FALSE)

\* C36: a failed score submission leaves the session in GAME_OVER with the
\* score unchanged and the save modal as it was, so that the user can retry
\* or skip; from GAME_OVER only a successful submission or an explicit skip
\* or back action moves the session to MENU.
C36_FailedSubmissionStays ==
    [][/\ (gameState = GAME_OVER /\ SubmissionFails)
          => /\ gameState' = GAME_OVER
             /\ score' = score
             /\ showSaveScore' = showSaveScore
             /\ showGameOver' = showGameOver
       /\ (gameState = GAME_OVER /\ gameState' = MENU)
          => (SaveScoreReturn(TRUE) \/ SkipSave \/ BackToMenu)]_vars

\* The score was submitted from the save modal in GAME_OVER and the result
\* of saveScore is awaited.
C36_Witness ==
    /\ gameState = GAME_OVER
    /\ showSaveScore
    /\ ~showGameOver
    /\ savesInFlight = 1
    /\ timeLeft = 0

(***************************************************************************)
(* C35: whenever the session enters GAME_OVER (by timeout, wrong riddle    *)
(* answer or catalog exhaustion), the stored personal best afterwards is   *)
(* the maximum of the previous best and the final score of the session.    *)
(***************************************************************************)
EntersGameOver == gameState # GAME_OVER /\ gameState' = GAME_OVER

C35_BestIsMaxAtGameOver ==
    [][EntersGameOver => playerHighScore' = Max(playerHighScore, score')]_vars

(***************************************************************************)
(* C38: the word-complete flag handed to the renderer, against the length  *)
(* of the buffer and against its content.                                  *)
(***************************************************************************)
FullBuffer == Len(wordDisplay.typedText) = Len(wordDisplay.currentWord)

BufferMatchesWord ==
    /\ FullBuffer
    /\ \A i \in 1 .. Len(wordDisplay.typedText) :
          wordDisplay.typedText[i] = wordDisplay.currentWord[i]

\* C38 as stated: the flag is true exactly when the buffer has the length
\* of the word.
C38_FlagIffFullLength ==
    wordDisplay.rendered => (wordDisplay.isComplete <=> FullBuffer)

\* C38 amended: the flag is true exactly when the buffer has the length of
\* the word and every position of it holds the word's character.
C38_FlagIffExactWord ==
    wordDisplay.rendered => (wordDisplay.isComplete <=> BufferMatchesWord)

\* A buffer as long as the word with a wrong character in it was rendered,
\* and the flag is off.
C38_Witness ==
    /\ wordDisplay.rendered
    /\ FullBuffer
    /\ ~BufferMatchesWord
    /\ ~wordDisplay.isComplete

(***************************************************************************)
(* C39: the status of every character of the current word.                 *)
(***************************************************************************)
Statuses == {"correct", "incorrect", "cursor", "pending"}

\* The condition under which index i - 1 has status st.
StatusHolds(st, i) ==
    LET word == wordDisplay.currentWord
        typed == wordDisplay.typedText
    IN  CASE st = "correct" -> i - 1 < Len(typed) /\ typed[i] = word[i]
          [] st = "incorrect" -> i - 1 < Len(typed) /\ typed[i] # word[i]
          [] st = "cursor" -> i - 1 = Len(typed) /\ Len(typed) < Len(word)
          [] st = "pending" -> /\ ~(i - 1 < Len(typed))
                               /\ ~(i - 1 = Len(typed) /\ Len(typed) < Len(word))

\* C39: the rendered word has one status per character of the word; index
\* i is correct when typed and equal to the word's character (case matters),
\* incorrect when typed and different, cursor when it is the first untyped
\* index of an unfinished word, pending otherwise; exactly one status holds
\* per index, and at most one index is the cursor.
C39_CharStatus ==
    wordDisplay.rendered =>
        /\ Len(wordDisplay.chars) = Len(wordDisplay.currentWord)
        /\ \A i \in 1 .. Len(wordDisplay.currentWord) :
              /\ wordDisplay.chars[i] \in Statuses
              /\ StatusHolds(wordDisplay.chars[i], i)
              /\ Cardinality({st \in Statuses : StatusHolds(st, i)}) = 1
        /\ Cardinality({i \in 1 .. Len(wordDisplay.currentWord) :
                           wordDisplay.chars[i] = "cursor"}) <= 1

\* "AaA" rendered with the buffer "Aa" typed as "AA": a correct character,
\* an incorrect one that differs by case only, and the cursor.
C39_Witness ==
    /\ wordDisplay.rendered
    /\ wordDisplay.currentWord = <<"A", "a", "A">>
    /\ wordDisplay.typedText = <<"A", "A">>
    /\ wordDisplay.chars = <<"correct", "incorrect", "cursor">>

(***************************************************************************)
(* C37: checkRateLimit is a sliding-window limiter.                        *)
(***************************************************************************)
\* The calls for key granted less than the window before the time t.
GrantsInWindow(key, t) ==
    {j \in 1 .. Len(rateLimit.granted[key]) :
        /\ rateLimit.granted[key][j] <= t
        /\ t - rateLimit.granted[key][j] < RateWindow}

\* C37: for every key, the calls that returned true within any interval
\* shorter than the window are at most the limit; a call that returns false
\* leaves localStorage as it was; and a call is granted whenever fewer than
\* the limit were granted within the window before it, however many were
\* granted earlier.
C37_SlidingWindow ==
    /\ [](\A key \in RateKeys :
            \A i \in 1 .. Len(rateLimit.granted[key]) :
               Cardinality(GrantsInWindow(key, rateLimit.granted[key][i]))
                  <= RateLimitOf(key))
    /\ [][\A key \in RateKeys :
             (CheckRateLimit(key) /\ ~rateLimit'.last.result)
                => rateLimit'.storage = rateLimit.storage]_vars
    /\ [][\A key \in RateKeys :
             CheckRateLimit(key)
                => (rateLimit'.last.result
                      <=> Cardinality(GrantsInWindow(key, rateLimit.now))
                             < RateLimitOf(key))]_vars

\* The 'save_score_ui' key was granted more calls than its limit in all,
\* the last of them just now: the earlier timestamps had left the window
\* and were dropped from localStorage.
C37_Witness ==
    /\ Len(rateLimit.granted["save_score_ui"]) > RateLimitOf("save_score_ui")
    /\ rateLimit.last = [key |-> "save_score_ui", result |-> TRUE]
    /\ Len(rateLimit.storage["save_score_ui"]) = 1

====
